---- MODULE Spec2Model ----
(***************************************************************************)
(* A model of btrfs-walk-tut (src/src/main.rs): the program that reads an  *)
(* unmounted btrfs image and prints the absolute path of every regular     *)
(* file.  The image is the environment: the superblock, the system chunk   *)
(* array, the chunk tree and the root tree are read once each, so their    *)
(* contents are chosen when the code reads them; the filesystem tree is    *)
(* re-read on every inode-ref lookup, so it is held in fsRoot.             *)
(*                                                                         *)
(* chunk_tree.rs, tree.rs and structs.rs are not part of the sources at    *)
(* hand; ChunkTreeCache, the record sizes and the key constants follow the *)
(* specification (sections 3, 4.B) and the btrfs on-disk format.           *)
(***************************************************************************)
EXTENDS Integers, Sequences, FiniteSets, TLC

VARIABLES
    phase,      \* the call main is at (or was at when it failed)
    err,        \* "" while running, else the diagnostic the run died with
    arraySize,  \* bootstrap_chunk_tree: array_size
    offset,     \* bootstrap_chunk_tree: offset
    insEnd,     \* history: greatest end offset of a sys-array triple an entry was inserted from
    cache,      \* chunk_tree_cache: a set of entries keyed by start
    bootCache,  \* history: the cache bootstrap_chunk_tree returned
    dupSeen,    \* history: the chunk tree held a CHUNK_ITEM at a bootstrap entry's start
                \* with another length or stripe offset
    stdout,     \* the lines printed with println!
    ctStack,    \* read_chunk_tree: the recursion, innermost call last
    rootLeaf,   \* main: root_tree_root
    fsRootAddr, \* read_fs_tree_root: physical
    fsRoot,     \* main: fs_tree_root (with the blocks below it)
    fsStack,    \* walk_fs_tree: the recursion, innermost call last
    resolve,    \* walk_fs_tree: name, path_prefix, current_inode_nr of the parent-chain loop
    pending,    \* reorder harness: the sys-array items of the current run still to be read
    orders,     \* reorder harness: the two orderings, <<first run, orders run>>
    firstRun    \* reorder harness: the cache the first run returned

vars == <<phase, err, arraySize, offset, insEnd, cache, bootCache, dupSeen, stdout, ctStack,
          rootLeaf, fsRootAddr, fsRoot, fsStack, resolve, pending, orders, firstRun>>

(***************************************************************************)
(* Bounds of the model.                                                    *)
(***************************************************************************)
MaxLA == 2          \* logical addresses are 0..MaxLA
MaxLen == 2         \* chunk lengths are 0..MaxLen
MaxPO == 1          \* stripe offsets are 0..MaxPO
MaxStripes == 2     \* num_stripes is 0..MaxStripes
MaxSysItems == 2    \* the system array holds at most this many whole items
MaxNrItems == 2     \* header.nritems of a chunk tree block
MaxLevel == 1       \* header.level of a chunk tree block
MaxRootItems == 2   \* items of the root tree's root block
MaxFsItems == 3     \* items of the filesystem tree

LAs == 0..MaxLA
Lens == 0..MaxLen
POs == 0..MaxPO

(***************************************************************************)
(* On-disk constants (structs.rs).                                         *)
(***************************************************************************)
BTRFS_CHUNK_ITEM_KEY == 228
BTRFS_ROOT_ITEM_KEY == 132
BTRFS_INODE_REF_KEY == 12
BTRFS_DIR_ITEM_KEY == 84
BTRFS_INODE_ITEM_KEY == 1
BTRFS_FS_TREE_OBJECTID == 5
BTRFS_ROOT_TREE_DIR_OBJECTID == 6
BTRFS_FT_REG_FILE == 1
BTRFS_FT_DIR == 2
BTRFS_FIRST_FREE_OBJECTID == 256

KeySize == 17       \* size_of::<BtrfsKey>()
ChunkSize == 80     \* size_of::<BtrfsChunk>(), the first stripe included
StripeSize == 32    \* size_of::<BtrfsStripe>()

(***************************************************************************)
(* ChunkTreeCache (chunk_tree.rs), after section 4.B of the specification: *)
(* a map keyed by start; insert is first-wins on the same start; lookup    *)
(* finds the greatest start <= la and verifies la < start + size.          *)
(***************************************************************************)
NoEntry == [start |-> -1, size |-> 0, phys |-> 0]
NoOffset == -1

Insert(c, start, size, phys) ==
    IF \E e \in c : e.start = start
    THEN c
    ELSE c \cup {[start |-> start, size |-> size, phys |-> phys]}

MappingKv(c, la) ==
    LET below == {e \in c : e.start <= la}
    IN  IF below = {} THEN NoEntry
        ELSE LET g == CHOOSE e \in below : \A f \in below : f.start <= e.start
             IN  IF la < g.start + g.size THEN g ELSE NoEntry

Offset(c, la) ==
    LET kv == MappingKv(c, la)
    IN  IF kv = NoEntry THEN NoOffset ELSE kv.phys + (la - kv.start)

(***************************************************************************)
(* main: the order of its calls.                                           *)
(***************************************************************************)
NextPhaseSwapped(p) ==
    CASE p = "superblock" -> "bootstrap"
      [] p = "bootstrap"  -> "chunk_root"
      [] p = "chunk_root" -> "root_tree"
      [] p = "chunk_tree" -> "fs_root"
      [] p = "root_tree"  -> "chunk_tree"
      [] p = "fs_root"    -> "fs_walk"
      [] OTHER            -> "done"

NextPhase(p) ==
    CASE p = "superblock" -> "bootstrap"
      [] p = "bootstrap"  -> "chunk_root"
      [] p = "chunk_root" -> "chunk_tree"
      [] p = "chunk_tree" -> "root_tree"
      [] p = "root_tree"  -> "fs_root"
      [] p = "fs_root"    -> "fs_walk"
      [] OTHER            -> "done"

Running(p) == phase = p /\ err = ""

NoResolve == [active |-> FALSE, name |-> <<>>, prefix |-> <<>>, current |-> 0]
NoBlock == [level |-> -1, items |-> <<>>, ptrs |-> <<>>]
NoRun == {NoEntry}

(***************************************************************************)
(* parse_superblock.  The fields the later calls use (chunk_root, root)    *)
(* are chosen where they are used.                                         *)
(***************************************************************************)
ItemSize(n) == KeySize + ChunkSize + StripeSize * (n - 1)

RECURSIVE ItemStarts(_)
ItemStarts(k) ==
    IF k = 0 THEN {0}
    ELSE {s + ItemSize(n) : s \in ItemStarts(k - 1), n \in 1..MaxStripes}

Boundaries ==
    UNION {{s, s + KeySize, s + KeySize + ChunkSize} :
              s \in UNION {ItemStarts(k) : k \in 0..(MaxSysItems - 1)}}
    \cup ItemStarts(MaxSysItems)

ArraySizes == {b + d : b \in Boundaries, d \in {-1, 0, 1}} \cap Nat

ParseSuperblock ==
    /\ Running("superblock")
    /\ \E magicOk \in BOOLEAN, size \in ArraySizes :
          IF ~magicOk
          THEN /\ err' = "superblock magic is wrong"
               /\ UNCHANGED <<phase, arraySize>>
          ELSE /\ phase' = NextPhase(phase)
               /\ arraySize' = size
               /\ err' = ""
    /\ UNCHANGED <<offset, insEnd, cache, bootCache, dupSeen, stdout, ctStack, rootLeaf,
                   fsRootAddr, fsRoot, fsStack, resolve, pending, orders, firstRun>>

(***************************************************************************)
(* bootstrap_chunk_tree: one iteration of its while loop per step.         *)
(***************************************************************************)
SysRecords ==
    [ty : {BTRFS_CHUNK_ITEM_KEY, BTRFS_INODE_ITEM_KEY}, logical : LAs, length : Lens,
     numStripes : 0..MaxStripes, stripeOff : POs]

Warning(n) == [kind |-> "warning", n |-> n, path |-> <<>>]

ShortKey(off, size) == off + KeySize > size

ShortChunk(off, size) == off + ChunkSize > size

ChunkItemSize(n) == ChunkSize + StripeSize * (n - 1)

ShortStripesUnchecked(off, n, size) == FALSE

ShortStripes(off, n, size) == off + ChunkItemSize(n) > size

BootstrapInsertOffByOne(c, logical, length, stripeOff) ==
    IF Offset(c, logical + 1) = NoOffset
    THEN Insert(c, logical, length, stripeOff)
    ELSE c

BootstrapInsert(c, logical, length, stripeOff) ==
    IF Offset(c, logical) = NoOffset
    THEN Insert(c, logical, length, stripeOff)
    ELSE c

BootstrapIter(rec) ==
    /\ Running("bootstrap")
    /\ offset < arraySize
    /\ UNCHANGED <<phase, arraySize, bootCache, dupSeen, ctStack, rootLeaf, fsRootAddr, fsRoot,
                   fsStack, resolve, orders, firstRun>>
    /\ IF ShortKey(offset, arraySize)
       THEN /\ err' = "short key read"
            /\ UNCHANGED <<offset, insEnd, cache, stdout>>
       ELSE IF rec.ty # BTRFS_CHUNK_ITEM_KEY
       THEN /\ err' = "unknown item type in sys_array"
            /\ UNCHANGED <<offset, insEnd, cache, stdout>>
       ELSE IF ShortChunk(offset + KeySize, arraySize)
       THEN /\ err' = "short chunk item read"
            /\ offset' = offset + KeySize
            /\ UNCHANGED <<insEnd, cache, stdout>>
       ELSE IF rec.numStripes = 0
       THEN /\ err' = "num_stripes cannot be 0"
            /\ offset' = offset + KeySize
            /\ UNCHANGED <<insEnd, cache, stdout>>
       ELSE /\ stdout' = IF rec.numStripes # 1
                         THEN Append(stdout, Warning(rec.numStripes))
                         ELSE stdout
            /\ cache' = BootstrapInsert(cache, rec.logical, rec.length, rec.stripeOff)
            /\ insEnd' = IF cache' # cache /\ offset + ItemSize(rec.numStripes) > insEnd
                         THEN offset + ItemSize(rec.numStripes)
                         ELSE insEnd
            /\ IF ShortStripes(offset + KeySize, rec.numStripes, arraySize)
               THEN /\ err' = "short chunk item + stripe read"
                    /\ offset' = offset + KeySize
               ELSE /\ err' = ""
                    /\ offset' = offset + KeySize + ChunkItemSize(rec.numStripes)

BootstrapRead ==
    /\ pending = <<>>
    /\ \E rec \in SysRecords : BootstrapIter(rec)
    /\ UNCHANGED pending

BootstrapDone ==
    /\ Running("bootstrap")
    /\ ~(offset < arraySize)
    /\ phase' = NextPhase(phase)
    /\ bootCache' = cache
    /\ UNCHANGED <<dupSeen, err, arraySize, offset, insEnd, cache, stdout, ctStack, rootLeaf,
                   fsRootAddr, fsRoot, fsStack, resolve, pending, orders, firstRun>>

(***************************************************************************)
(* read_chunk_tree_root and read_chunk_tree.  A call of read_chunk_tree is *)
(* a frame [level, left]: the header's level and the items or pointers of  *)
(* the block still to be processed.  Blocks below a pointer are taken to   *)
(* have a smaller level than their parent.                                 *)
(***************************************************************************)
ChunkTreeItems ==
    [ty : {BTRFS_CHUNK_ITEM_KEY}, offset : LAs, length : Lens, stripeOff : POs]
    \cup {[ty |-> BTRFS_INODE_ITEM_KEY, offset |-> 0, length |-> 0, stripeOff |-> 0]}

Frame(level, left) == [level |-> level, left |-> left]

Top(stack) == stack[Len(stack)]

Pop(stack) == SubSeq(stack, 1, Len(stack) - 1)

SetTop(stack, f) == [stack EXCEPT ![Len(stack)] = f]

ReadChunkTreeRoot ==
    /\ Running("chunk_root")
    /\ \E chunk_root \in LAs :
          IF MappingKv(cache, chunk_root) = NoEntry \/ Offset(cache, chunk_root) = NoOffset
          THEN /\ err' = "Chunk tree root not bootstrapped"
               /\ UNCHANGED <<phase, ctStack>>
          ELSE \E level \in 0..MaxLevel, nritems \in 0..MaxNrItems :
                  /\ ctStack' = <<Frame(level, nritems)>>
                  /\ phase' = NextPhase(phase)
                  /\ err' = ""
    \* the locals of bootstrap_chunk_tree are gone
    /\ arraySize' = 0
    /\ offset' = 0
    /\ insEnd' = 0
    /\ UNCHANGED <<cache, bootCache, dupSeen, stdout, rootLeaf, fsRootAddr, fsRoot, fsStack,
                   resolve, pending, orders, firstRun>>

ChunkLeafInsertOverwrite(c, item) ==
    {e \in c : e.start # item.offset}
        \cup {[start |-> item.offset, size |-> item.length, phys |-> item.stripeOff]}

ChunkLeafInsert(c, item) == Insert(c, item.offset, item.length, item.stripeOff)

ChunkLeafItem ==
    /\ Running("chunk_tree")
    /\ ctStack # <<>>
    /\ Top(ctStack).level = 0
    /\ Top(ctStack).left > 0
    /\ \E item \in ChunkTreeItems :
          /\ cache' = IF item.ty # BTRFS_CHUNK_ITEM_KEY
                      THEN cache
                      ELSE ChunkLeafInsert(cache, item)
          /\ dupSeen' = (dupSeen \/ (/\ item.ty = BTRFS_CHUNK_ITEM_KEY
                                      /\ \E e \in bootCache :
                                            /\ e.start = item.offset
                                            /\ (e.size # item.length \/ e.phys # item.stripeOff)))
    /\ ctStack' = SetTop(ctStack, Frame(0, Top(ctStack).left - 1))
    /\ UNCHANGED <<phase, err, arraySize, offset, insEnd, bootCache, stdout, rootLeaf,
                   fsRootAddr, fsRoot, fsStack, resolve, pending, orders, firstRun>>

ChunkNodePtr ==
    /\ Running("chunk_tree")
    /\ ctStack # <<>>
    /\ Top(ctStack).level > 0
    /\ Top(ctStack).left > 0
    /\ \E blockptr \in LAs :
          IF Offset(cache, blockptr) = NoOffset
          THEN /\ err' = "Chunk tree node not mapped"
               /\ UNCHANGED ctStack
          ELSE \E level \in 0..(Top(ctStack).level - 1), nritems \in 0..MaxNrItems :
                  /\ ctStack' = Append(SetTop(ctStack, Frame(Top(ctStack).level,
                                                          Top(ctStack).left - 1)),
                                       Frame(level, nritems))
                  /\ err' = ""
    /\ UNCHANGED <<phase, arraySize, offset, insEnd, cache, bootCache, dupSeen, stdout, rootLeaf,
                   fsRootAddr, fsRoot, fsStack, resolve, pending, orders, firstRun>>

ChunkReturn ==
    /\ Running("chunk_tree")
    /\ ctStack # <<>>
    /\ Top(ctStack).left = 0
    /\ ctStack' = Pop(ctStack)
    /\ phase' = IF ctStack' = <<>> THEN NextPhase(phase) ELSE phase
    /\ UNCHANGED <<err, arraySize, offset, insEnd, cache, bootCache, dupSeen, stdout, rootLeaf,
                   fsRootAddr, fsRoot, fsStack, resolve, pending, orders, firstRun>>

(***************************************************************************)
(* read_root_tree_root and read_fs_tree_root.                              *)
(***************************************************************************)
RootItems ==
    [objectid : {BTRFS_FS_TREE_OBJECTID}, ty : {BTRFS_ROOT_ITEM_KEY}, bytenr : LAs]
    \cup {[objectid |-> BTRFS_ROOT_TREE_DIR_OBJECTID, ty |-> BTRFS_ROOT_ITEM_KEY, bytenr |-> 0],
          [objectid |-> BTRFS_FS_TREE_OBJECTID, ty |-> BTRFS_INODE_ITEM_KEY, bytenr |-> 0]}

SeqsUpTo(S, k) == UNION {[1..n -> S] : n \in 0..k}

RootBlocks ==
    {[level |-> 0, items |-> s, ptrs |-> <<>>] : s \in SeqsUpTo(RootItems, MaxRootItems)}
    \cup {[level |-> 1, items |-> <<>>, ptrs |-> <<>>]}

ReadRootTreeRoot ==
    /\ Running("root_tree")
    /\ \E root \in LAs :
          IF MappingKv(cache, root) = NoEntry \/ Offset(cache, root) = NoOffset
          THEN /\ err' = "Root tree root logical addr not mapped"
               /\ UNCHANGED <<phase, rootLeaf>>
          ELSE \E blk \in RootBlocks :
                  /\ rootLeaf' = blk
                  /\ phase' = NextPhase(phase)
                  /\ err' = ""
    \* the histories of the chunk phases end here
    /\ bootCache' = {}
    /\ dupSeen' = FALSE
    /\ UNCHANGED <<arraySize, offset, insEnd, cache, stdout, ctStack, fsRootAddr, fsRoot,
                   fsStack, resolve, pending, orders, firstRun>>

IsFsRootItem(item) ==
    ~(item.objectid # BTRFS_FS_TREE_OBJECTID \/ item.ty # BTRFS_ROOT_ITEM_KEY)

Min(S) == CHOOSE x \in S : \A y \in S : x <= y

Max(S) == CHOOSE x \in S : \A y \in S : y <= x

\* a scan in on-disk order: the matching item of the least index
FindFsRootItemForward(items) ==
    LET m == {i \in 1..Len(items) : IsFsRootItem(items[i])}
    IN  IF m = {} THEN 0 ELSE Min(m)

\* the index of the item the reverse scan stops at, 0 when it stops at none
FindFsRootItem(items) ==
    LET m == {i \in 1..Len(items) : IsFsRootItem(items[i])}
    IN  IF m = {} THEN 0 ELSE Max(m)


(***************************************************************************)
(* The filesystem tree: a block is [level, items, ptrs]; a pointer carries *)
(* its blockptr and the block stored at the address blockptr translates    *)
(* to.  Names are sequences of bytes; "xFF" is a byte that is not UTF-8.   *)
(***************************************************************************)
Inodes == {BTRFS_FIRST_FREE_OBJECTID, BTRFS_FIRST_FREE_OBJECTID + 1}

Names == {<<>>, <<"a">>, <<"xFF">>}

DirItem(objectid, dirTy, name) ==
    [objectid |-> objectid, ty |-> BTRFS_DIR_ITEM_KEY, offset |-> 0, dirTy |-> dirTy,
     name |-> name]

InodeRef(objectid, parent, name) ==
    [objectid |-> objectid, ty |-> BTRFS_INODE_REF_KEY, offset |-> parent, dirTy |-> 0,
     name |-> name]

FsItems ==
    {DirItem(o, BTRFS_FT_REG_FILE, n) : o \in Inodes, n \in Names}
    \cup {DirItem(o, BTRFS_FT_DIR, <<"a">>) : o \in Inodes}
    \cup {InodeRef(o, p, n) : o \in Inodes, p \in Inodes, n \in Names}

Leaf(items) == [level |-> 0, items |-> items, ptrs |-> <<>>]

Node(ptrs) == [level |-> 1, items |-> <<>>, ptrs |-> ptrs]

Ptr(blockptr, node) == [blockptr |-> blockptr, node |-> node]

FsLeaves(k) == {Leaf(s) : s \in SeqsUpTo(FsItems, k)}

FsTrees(k) ==
    FsLeaves(k)
    \cup {Node(p) : p \in SeqsUpTo({Ptr(la, n) : la \in LAs, n \in FsLeaves(1)}, 2)}

\* the trees the whole-program specification reads
SampleFsTrees ==
    {Leaf(<<InodeRef(256, 256, <<>>), DirItem(256, BTRFS_FT_REG_FILE, <<"a">>)>>),
     Leaf(<<DirItem(257, BTRFS_FT_REG_FILE, <<"a">>), InodeRef(257, 256, <<"a">>),
            InodeRef(256, 256, <<>>)>>),
     Leaf(<<DirItem(256, BTRFS_FT_DIR, <<"a">>), DirItem(256, BTRFS_FT_REG_FILE, <<"a">>)>>),
     Node(<<Ptr(0, Leaf(<<DirItem(256, BTRFS_FT_REG_FILE, <<"a">>)>>)),
            Ptr(1, Leaf(<<InodeRef(256, 256, <<>>)>>))>>)}

ReadFsTreeRoot ==
    /\ Running("fs_root")
    /\ LET i == FindFsRootItem(rootLeaf.items)
       IN  IF rootLeaf.level # 0
           THEN /\ err' = "Root tree root is not a leaf node"
                /\ UNCHANGED <<phase, fsRootAddr, fsRoot, fsStack>>
           ELSE IF i = 0
           THEN /\ err' = "Failed to find root tree item for fs tree root"
                /\ UNCHANGED <<phase, fsRootAddr, fsRoot, fsStack>>
           ELSE IF Offset(cache, rootLeaf.items[i].bytenr) = NoOffset
           THEN /\ err' = "fs tree root not mapped"
                /\ UNCHANGED <<phase, fsRootAddr, fsRoot, fsStack>>
           ELSE /\ fsRootAddr' = Offset(cache, rootLeaf.items[i].bytenr)
                /\ \E t \in SampleFsTrees :
                      /\ fsRoot' = t
                      /\ fsStack' = <<[node |-> t, idx |-> 1]>>
                /\ phase' = NextPhase(phase)
                /\ err' = ""
    /\ UNCHANGED <<arraySize, offset, insEnd, cache, bootCache, dupSeen, stdout, ctStack, rootLeaf,
                   resolve, pending, orders, firstRun>>

(***************************************************************************)
(* get_inode_ref: the first INODE_REF of the inode in traversal order.     *)
(***************************************************************************)
RefNone == [status |-> "none", offset |-> 0, name |-> <<>>]
RefErr == [status |-> "err", offset |-> 0, name |-> <<>>]

RECURSIVE GetInodeRef(_, _, _)
RECURSIVE GetInodeRefPtrs(_, _, _, _)
GetInodeRef(inode, node, c) ==
    IF node.level = 0
    THEN LET m == {i \in 1..Len(node.items) :
                      /\ ~(node.items[i].ty # BTRFS_INODE_REF_KEY)
                      /\ node.items[i].objectid = inode}
         IN  IF m = {} THEN RefNone
             ELSE [status |-> "some", offset |-> node.items[Min(m)].offset,
                   name |-> node.items[Min(m)].name]
    ELSE GetInodeRefPtrs(inode, node.ptrs, 1, c)

GetInodeRefPtrs(inode, ptrs, i, c) ==
    IF i > Len(ptrs) THEN RefNone
    ELSE IF Offset(c, ptrs[i].blockptr) = NoOffset THEN RefErr
    ELSE LET ret == GetInodeRef(inode, ptrs[i].node, c)
         IN  IF ret.status = "none" THEN GetInodeRefPtrs(inode, ptrs, i + 1, c) ELSE ret

(***************************************************************************)
(* walk_fs_tree: a call is a frame [node, idx], idx the item or pointer    *)
(* the for loop is at.  The parent-chain loop takes one step per hop.      *)
(***************************************************************************)
Utf8(name) == \A i \in 1..Len(name) : name[i] # "xFF"

FileLine(path) == [kind |-> "filename", n |-> 0, path |-> path]

\* path_prefix never needs more than this on a chain that ends: longer prefixes
\* arise only on a chain that revisits an inode, where they are never printed
MaxPrefixLen == 2 * Cardinality(Inodes) + 1

Bounded(prefix, longer) == IF Len(longer) > MaxPrefixLen THEN prefix ELSE longer

PrependParent(prefix, name) == name \o <<"/">> \o prefix

IsRegFileEntryAnyType(item) == ~(item.ty # BTRFS_DIR_ITEM_KEY)

IsRegFileEntry(item) ==
    ~(item.ty # BTRFS_DIR_ITEM_KEY) /\ ~(item.dirTy # BTRFS_FT_REG_FILE)

NextItem(stack) == SetTop(stack, [node |-> Top(stack).node, idx |-> Top(stack).idx + 1])

FsLeafItem ==
    /\ Running("fs_walk")
    /\ ~resolve.active
    /\ fsStack # <<>>
    /\ Top(fsStack).node.level = 0
    /\ Top(fsStack).idx <= Len(Top(fsStack).node.items)
    /\ LET item == Top(fsStack).node.items[Top(fsStack).idx]
       IN  IF ~IsRegFileEntry(item)
           THEN /\ fsStack' = NextItem(fsStack)
                /\ UNCHANGED <<err, resolve>>
           ELSE IF ~Utf8(item.name)
           THEN /\ err' = "invalid utf-8 in name"
                /\ UNCHANGED <<fsStack, resolve>>
           ELSE /\ resolve' = [active |-> TRUE, name |-> item.name, prefix |-> <<>>,
                               current |-> item.objectid]
                /\ UNCHANGED <<err, fsStack>>
    /\ rootLeaf' = NoBlock
    /\ UNCHANGED <<phase, arraySize, offset, insEnd, cache, bootCache, dupSeen, stdout, ctStack,
                   fsRootAddr, fsRoot, pending, orders, firstRun>>

ResolveHop ==
    /\ Running("fs_walk")
    /\ resolve.active
    /\ LET ret == GetInodeRef(resolve.current, fsRoot, cache)
       IN  IF ret.status = "err"
           THEN /\ err' = "fs tree node not mapped"
                /\ UNCHANGED <<stdout, fsStack, resolve>>
           ELSE IF ret.status = "none"
           THEN /\ err' = "Failed to find inode_ref"
                /\ UNCHANGED <<stdout, fsStack, resolve>>
           ELSE IF ret.offset = resolve.current
           THEN /\ stdout' = Append(stdout, FileLine(<<"/">> \o resolve.prefix \o resolve.name))
                /\ resolve' = NoResolve
                /\ fsStack' = NextItem(fsStack)
                /\ UNCHANGED err
           ELSE IF ~Utf8(ret.name)
           THEN /\ err' = "invalid utf-8 in name"
                /\ UNCHANGED <<stdout, fsStack, resolve>>
           ELSE /\ resolve' = [resolve EXCEPT
                                  !.prefix = Bounded(@, PrependParent(@, ret.name)),
                                  !.current = ret.offset]
                /\ UNCHANGED <<err, stdout, fsStack>>
    /\ UNCHANGED <<phase, arraySize, offset, insEnd, cache, bootCache, dupSeen, ctStack, rootLeaf,
                   fsRootAddr, fsRoot, pending, orders, firstRun>>

FsNodePtr ==
    /\ Running("fs_walk")
    /\ fsStack # <<>>
    /\ Top(fsStack).node.level > 0
    /\ Top(fsStack).idx <= Len(Top(fsStack).node.ptrs)
    /\ LET ptr == Top(fsStack).node.ptrs[Top(fsStack).idx]
       IN  IF Offset(cache, ptr.blockptr) = NoOffset
           THEN /\ err' = "fs tree node not mapped"
                /\ UNCHANGED fsStack
           ELSE /\ fsStack' = Append(NextItem(fsStack), [node |-> ptr.node, idx |-> 1])
                /\ UNCHANGED err
    /\ rootLeaf' = NoBlock
    /\ UNCHANGED <<phase, arraySize, offset, insEnd, cache, bootCache, dupSeen, stdout, ctStack,
                   fsRootAddr, fsRoot, resolve, pending, orders, firstRun>>

FsReturn ==
    /\ Running("fs_walk")
    /\ ~resolve.active
    /\ fsStack # <<>>
    /\ Top(fsStack).idx > Len(Top(fsStack).node.items)
    /\ Top(fsStack).idx > Len(Top(fsStack).node.ptrs)
    /\ fsStack' = Pop(fsStack)
    /\ phase' = IF fsStack' = <<>> THEN NextPhase(phase) ELSE phase
    /\ rootLeaf' = NoBlock
    /\ UNCHANGED <<err, arraySize, offset, insEnd, cache, bootCache, dupSeen, stdout, ctStack,
                   fsRootAddr, fsRoot, resolve, pending, orders, firstRun>>

(***************************************************************************)
(* The whole program.                                                      *)
(***************************************************************************)
Init ==
    /\ phase = "superblock"
    /\ err = ""
    /\ arraySize = 0
    /\ offset = 0
    /\ insEnd = 0
    /\ cache = {}
    /\ bootCache = {}
    /\ dupSeen = FALSE
    /\ stdout = <<>>
    /\ ctStack = <<>>
    /\ rootLeaf = NoBlock
    /\ fsRootAddr = NoOffset
    /\ fsRoot = NoBlock
    /\ fsStack = <<>>
    /\ resolve = NoResolve
    /\ pending = <<>>
    /\ orders = <<>>
    /\ firstRun = NoRun

FsNext == FsLeafItem \/ ResolveHop \/ FsNodePtr \/ FsReturn

Next ==
    \/ ParseSuperblock
    \/ BootstrapRead
    \/ BootstrapDone
    \/ ReadChunkTreeRoot
    \/ ChunkLeafItem
    \/ ChunkNodePtr
    \/ ChunkReturn
    \/ ReadRootTreeRoot
    \/ ReadFsTreeRoot
    \/ FsNext

Spec == Init /\ [][Next]_vars

(***************************************************************************)
(* walk_fs_tree on its own: main has reached its call of walk_fs_tree      *)
(* with a chunk map that maps logical address 1 alone, and fs_tree_root is *)
(* any tree of FsTrees.                                                    *)
(***************************************************************************)
FsWalkCache == {[start |-> 1, size |-> 1, phys |-> 0]}

InitFs ==
    /\ phase = "fs_walk"
    /\ err = ""
    /\ arraySize = 0
    /\ offset = 0
    /\ insEnd = 0
    /\ cache = FsWalkCache
    /\ bootCache = {}
    /\ dupSeen = FALSE
    /\ stdout = <<>>
    /\ ctStack = <<>>
    /\ rootLeaf = NoBlock
    /\ fsRootAddr = 0
    /\ fsRoot \in FsTrees(MaxFsItems)
    /\ fsStack = <<[node |-> fsRoot, idx |-> 1]>>
    /\ resolve = NoResolve
    /\ pending = <<>>
    /\ orders = <<>>
    /\ firstRun = NoRun

SpecFs == InitFs /\ [][FsNext]_vars

\* the program is one thread that runs until it returns or fails
FairSpecFs == SpecFs /\ WF_vars(FsNext)

(***************************************************************************)
(* read_root_tree_root, read_fs_tree_root and the walk on their own, from  *)
(* the state main is in when read_chunk_tree has returned one of a few     *)
(* chunk maps that bootstrap can build and an empty chunk tree leaves      *)
(* alone: disjoint, overlapping and zero-length entries.                   *)
(***************************************************************************)
BootstrappedCaches ==
    {FsWalkCache,
     {[start |-> 0, size |-> 1, phys |-> 1], [start |-> 2, size |-> 1, phys |-> 0]},
     {[start |-> 1, size |-> 1, phys |-> 0], [start |-> 0, size |-> 2, phys |-> 1]},
     {[start |-> 0, size |-> 0, phys |-> 1], [start |-> 1, size |-> 2, phys |-> 0]}}

InitRoot ==
    /\ phase = "root_tree"
    /\ err = ""
    /\ arraySize = 0
    /\ offset = 0
    /\ insEnd = 0
    /\ cache \in BootstrappedCaches
    /\ bootCache = cache
    /\ dupSeen = FALSE
    /\ stdout = <<>>
    /\ ctStack = <<>>
    /\ rootLeaf = NoBlock
    /\ fsRootAddr = NoOffset
    /\ fsRoot = NoBlock
    /\ fsStack = <<>>
    /\ resolve = NoResolve
    /\ pending = <<>>
    /\ orders = <<>>
    /\ firstRun = NoRun

(***************************************************************************)
(* read_chunk_tree_root and read_chunk_tree on their own, from the state   *)
(* main is in when bootstrap_chunk_tree has returned one of the same chunk *)
(* maps, built from one-stripe items that fill the system array.           *)
(***************************************************************************)
InitChunk ==
    /\ phase = "chunk_root"
    /\ err = ""
    /\ cache \in BootstrappedCaches
    /\ arraySize = Cardinality(cache) * ItemSize(1)
    /\ offset = arraySize
    /\ insEnd = arraySize
    /\ bootCache = cache
    /\ dupSeen = FALSE
    /\ stdout = <<>>
    /\ ctStack = <<>>
    /\ rootLeaf = NoBlock
    /\ fsRootAddr = NoOffset
    /\ fsRoot = NoBlock
    /\ fsStack = <<>>
    /\ resolve = NoResolve
    /\ pending = <<>>
    /\ orders = <<>>
    /\ firstRun = NoRun

NextChunk == ReadChunkTreeRoot \/ ChunkLeafItem \/ ChunkNodePtr \/ ChunkReturn

SpecChunk == InitChunk /\ [][NextChunk]_vars

NextRoot == ReadRootTreeRoot \/ ReadFsTreeRoot \/ FsNext

SpecRoot == InitRoot /\ [][NextRoot]_vars

(***************************************************************************)
(* bootstrap_chunk_tree on its own, run on two orderings of the same       *)
(* system-array items one after the other.  The items are CHUNK_ITEMs of   *)
(* one stripe each (further stripes are skipped by the code), the array    *)
(* holds exactly the items.                                                *)
(***************************************************************************)
ReorderItems == {r \in SysRecords : r.ty = BTRFS_CHUNK_ITEM_KEY /\ r.numStripes = 1}

Injective(s) == \A i, j \in 1..Len(s) : s[i] = s[j] => i = j

InitReorder ==
    /\ phase = "bootstrap"
    /\ err = ""
    /\ pending \in {s \in SeqsUpTo(ReorderItems, MaxSysItems) : Injective(s)}
    /\ \E p \in Permutations(1..Len(pending)) :
          orders = <<pending, [i \in 1..Len(pending) |-> pending[p[i]]]>>
    /\ arraySize = Len(pending) * ItemSize(1)
    /\ offset = 0
    /\ insEnd = 0
    /\ cache = {}
    /\ bootCache = {}
    /\ dupSeen = FALSE
    /\ stdout = <<>>
    /\ ctStack = <<>>
    /\ rootLeaf = NoBlock
    /\ fsRootAddr = NoOffset
    /\ fsRoot = NoBlock
    /\ fsStack = <<>>
    /\ resolve = NoResolve
    /\ firstRun = NoRun

ReorderIter ==
    /\ pending # <<>>
    /\ BootstrapIter(Head(pending))
    /\ pending' = Tail(pending)

ReorderRestart ==
    /\ Running("chunk_root")
    /\ firstRun = NoRun
    /\ firstRun' = cache
    /\ pending' = orders[2]
    /\ phase' = "bootstrap"
    /\ cache' = {}
    /\ bootCache' = {}
    /\ offset' = 0
    /\ insEnd' = 0
    /\ stdout' = <<>>
    /\ UNCHANGED <<err, arraySize, dupSeen, ctStack, rootLeaf, fsRootAddr, fsRoot, fsStack,
                   resolve, orders>>

NextReorder == ReorderIter \/ BootstrapDone \/ ReorderRestart

SpecReorder == InitReorder /\ [][NextReorder]_vars

(***************************************************************************)
(* Properties.                                                             *)
(***************************************************************************)
EntryRange(e) == e.start..(e.start + e.size - 1)

NonOverlapping(c) == \A a, b \in c : a # b => EntryRange(a) \cap EntryRange(b) = {}

\* C1: after bootstrap_chunk_tree has returned, and after read_chunk_tree has
\* returned, any two distinct entries of the chunk map have disjoint logical
\* intervals.
C1_NonOverlapping ==
    (err = "" /\ phase \in {"chunk_root", "root_tree", "fs_root", "fs_walk", "done"})
        => NonOverlapping(cache)

\* C2: every entry bootstrap_chunk_tree put in the chunk map is in it, with the
\* same size and physical offset, while and after read_chunk_tree runs.
C2_FirstWins ==
    phase \in {"chunk_tree", "root_tree"} => \A e \in bootCache : e \in cache

C2_Witness ==
    /\ Running("root_tree")
    /\ dupSeen
    /\ bootCache # {}

\* C5 as stated: bootstrap_chunk_tree returns Ok only with offset = array_size,
\* and no entry is ever inserted from a triple that ends past array_size.
C5_NoInsertPastArray ==
    /\ Running("chunk_root") => offset = arraySize
    /\ insEnd <= arraySize

\* C5 as amended: bootstrap_chunk_tree returns Ok only with offset = array_size,
\* every entry of the map it returns comes from a triple that ends within
\* array_size, and between iterations every entry comes from a triple that ends
\* at or before offset; the iteration that fails with "short chunk item +
\* stripe read" has inserted its entry before the check.
C5_ReturnedMapWithinArray ==
    /\ Running("chunk_root") => (offset = arraySize /\ insEnd <= arraySize)
    /\ Running("bootstrap") => (insEnd <= offset /\ offset <= arraySize)
    /\ err = "short key read" => offset + KeySize > arraySize
    /\ err = "short chunk item read" => offset + ChunkSize > arraySize

C5_Witness ==
    /\ Running("chunk_root")
    /\ insEnd = arraySize
    /\ arraySize = ItemSize(1) + ItemSize(2)
    /\ Cardinality(cache) = 2

\* C6: every line on standard output is a filename=<path> line.
C6_StdoutOnlyFilenames == \A i \in 1..Len(stdout) : stdout[i].kind = "filename"

\* C7: read_fs_tree_root uses the matching root item of the greatest index: it
\* succeeds with that item's translated bytenr, fails when that bytenr is
\* unmapped whatever the earlier items are, and fails when no item matches.
FsRootMatches(blk) ==
    {i \in 1..Len(blk.items) :
        /\ blk.items[i].objectid = BTRFS_FS_TREE_OBJECTID
        /\ blk.items[i].ty = BTRFS_ROOT_ITEM_KEY}

LastMatchBytenr(blk) ==
    LET i == CHOOSE k \in FsRootMatches(blk) : \A j \in FsRootMatches(blk) : j <= k
    IN  blk.items[i].bytenr

C7_ReverseScan ==
    /\ (Running("fs_walk") /\ rootLeaf # NoBlock) =>
          /\ rootLeaf.level = 0
          /\ FsRootMatches(rootLeaf) # {}
          /\ Offset(cache, LastMatchBytenr(rootLeaf)) # NoOffset
          /\ fsRootAddr = Offset(cache, LastMatchBytenr(rootLeaf))
    /\ (phase = "fs_root" /\ err # "") =>
          IF rootLeaf.level # 0
          THEN err = "Root tree root is not a leaf node"
          ELSE IF FsRootMatches(rootLeaf) = {}
          THEN err = "Failed to find root tree item for fs tree root"
          ELSE /\ err = "fs tree root not mapped"
               /\ Offset(cache, LastMatchBytenr(rootLeaf)) = NoOffset

C7_Witness ==
    /\ phase = "fs_root"
    /\ err = "fs tree root not mapped"
    /\ \E i \in FsRootMatches(rootLeaf) : Offset(cache, rootLeaf.items[i].bytenr) # NoOffset

\* C8: main's calls happen in the order bootstrap, chunk-tree walk, root-tree
\* read, filesystem-tree walk, each begun only when the one before succeeded,
\* and no step from the root-tree read on changes the chunk map.
Rank(p) ==
    CASE p = "superblock" -> 0
      [] p = "bootstrap"  -> 1
      [] p = "chunk_root" -> 2
      [] p = "chunk_tree" -> 3
      [] p = "root_tree"  -> 4
      [] p = "fs_root"    -> 5
      [] p = "fs_walk"    -> 6
      [] OTHER            -> 7

C8_PhaseOrder ==
    [][/\ phase' # phase => (err = "" /\ err' = "" /\ Rank(phase') = Rank(phase) + 1)
       /\ Rank(phase) >= Rank("root_tree") => cache' = cache
       /\ Rank(phase) < Rank("chunk_root") => (ctStack' = <<>> /\ fsStack' = <<>>)
       /\ Rank(phase) < Rank("fs_root") => (fsStack' = <<>> /\ ~resolve'.active)]_vars

C8_Witness ==
    /\ Running("done")
    /\ cache # {}
    /\ \E i \in 1..Len(stdout) : stdout[i].kind = "filename"

\* C9 as stated: two orderings of the same system-array items with pairwise
\* disjoint logical ranges give the same chunk map.
ItemRange(r) == r.logical..(r.logical + r.length - 1)

PairwiseDisjoint(s) ==
    \A i, j \in 1..Len(s) : i # j => ItemRange(s[i]) \cap ItemRange(s[j]) = {}

BothRunsDone == Running("chunk_root") /\ firstRun # NoRun

C9_ReorderDisjoint ==
    (BothRunsDone /\ PairwiseDisjoint(orders[2])) => cache = firstRun

\* C9 as amended: two orderings of the same system-array items with non-zero
\* lengths and pairwise disjoint logical ranges give the same chunk map.
C9_ReorderDisjointNonEmpty ==
    (/\ BothRunsDone
     /\ PairwiseDisjoint(orders[2])
     /\ \A i \in 1..Len(orders[2]) : orders[2][i].length > 0) => cache = firstRun

C9_Witness ==
    /\ BothRunsDone
    /\ orders[1] # orders[2]
    /\ PairwiseDisjoint(orders[2])
    /\ \A i \in 1..Len(orders[2]) : orders[2][i].length > 0
    /\ Cardinality(cache) = Len(orders[2])

(***************************************************************************)
(* The paths walk_fs_tree is to print, read off the tree: the items in     *)
(* traversal order, the first INODE_REF of each inode, the chain of parent *)
(* links from a directory entry's key.objectid.                            *)
(***************************************************************************)
RECURSIVE FlatItems(_)
RECURSIVE FlatPtrs(_, _)
FlatItems(node) == IF node.level = 0 THEN node.items ELSE FlatPtrs(node.ptrs, 1)

FlatPtrs(ptrs, i) ==
    IF i > Len(ptrs) THEN <<>> ELSE FlatItems(ptrs[i].node) \o FlatPtrs(ptrs, i + 1)

IsRegFile(it) == it.ty = BTRFS_DIR_ITEM_KEY /\ it.dirTy = BTRFS_FT_REG_FILE

IsRefOf(it, inode) == it.ty = BTRFS_INODE_REF_KEY /\ it.objectid = inode

RegFiles(flat) == SelectSeq(flat, IsRegFile)

HasRef(flat, inode) == \E i \in 1..Len(flat) : IsRefOf(flat[i], inode)

FirstRef(flat, inode) ==
    flat[CHOOSE i \in 1..Len(flat) :
            /\ IsRefOf(flat[i], inode)
            /\ \A j \in 1..(i - 1) : ~IsRefOf(flat[j], inode)]

NoPath == <<"?">>

\* the directory's path, root first; NoPath when the chain meets an inode
\* without INODE_REF, a name that is not UTF-8, or an inode for the second time
RECURSIVE DirPath(_, _, _)
DirPath(flat, inode, fuel) ==
    IF fuel = 0 \/ ~HasRef(flat, inode) THEN NoPath
    ELSE LET ref == FirstRef(flat, inode)
         IN  IF ref.offset = inode THEN <<"/">>
             ELSE LET up == DirPath(flat, ref.offset, fuel - 1)
                  IN  IF up = NoPath \/ ~Utf8(ref.name) THEN NoPath
                      ELSE up \o ref.name \o <<"/">>

\* whether the chain meets an inode without INODE_REF
RECURSIVE ChainBreaks(_, _, _)
ChainBreaks(flat, inode, fuel) ==
    IF fuel = 0 THEN FALSE
    ELSE IF ~HasRef(flat, inode) THEN TRUE
    ELSE LET ref == FirstRef(flat, inode)
         IN  /\ ref.offset # inode
             /\ Utf8(ref.name)
             /\ ChainBreaks(flat, ref.offset, fuel - 1)

Fuel == Cardinality(Inodes) + 1

FilePath(flat, d) ==
    LET dir == DirPath(flat, d.objectid, Fuel)
    IN  IF dir = NoPath \/ ~Utf8(d.name) THEN NoPath ELSE dir \o d.name

Expected == LET flat == FlatItems(fsRoot)
            IN  [k \in 1..Len(RegFiles(flat)) |-> FilePath(flat, RegFiles(flat)[k])]

Printed == LET lines == SelectSeq(stdout, LAMBDA l : l.kind = "filename")
           IN  [k \in 1..Len(lines) |-> lines[k].path]

Range(s) == {s[k] : k \in 1..Len(s)}

WellFormedPath(path) ==
    /\ Len(path) > 1
    /\ path[1] = "/"
    /\ path[Len(path)] # "/"
    /\ \A i \in 1..(Len(path) - 1) : ~(path[i] = "/" /\ path[i + 1] = "/")

C4_PathsWellFormed == \A k \in 1..Len(Printed) : WellFormedPath(Printed[k])

\* C10: the parent-chain loop of every regular-file entry ends: it prints the
\* path or fails.
C10_ChainLoopEnds == resolve.active ~> (~resolve.active \/ err # "")

====
